---------------------------- MODULE Spec2Model ----------------------------
(***************************************************************************)
(* A model of handparser/stars.py: PokerStarsHand, the parser of one       *)
(* PokerStars tournament hand history.                                     *)
(*                                                                         *)
(* The hand text is modelled after segmentation: `splitted` is the list    *)
(* of line tokens that _split_pattern.split produces.  A token is a record *)
(* whose field k says which of the class's patterns the line can match    *)
(* and whose other fields are the groups that pattern would capture.  The  *)
(* board line is kept as its characters, so that _board_pattern.findall is *)
(* computed and not assumed.  Python's 0-based indices are kept: At(t, i)  *)
(* is t[i].  An attribute of the record is Unset (never assigned), None or *)
(* Some(v); `rec` is the object's attribute dictionary.                    *)
(***************************************************************************)
EXTENDS Integers, Sequences, FiniteSets, TLC

VARIABLES splitted, rec, header_parsed, parsed, pc, err, last

vars == <<splitted, rec, header_parsed, parsed, pc, err, last>>

-----------------------------------------------------------------------------
(* Bounds of the model. *)

\* seat lines listed after the table line
MaxSeatLines == 2
\* action lines per street
MaxActions == 2
\* cards on the summary's board line
MaxBoardCards == 6
\* seat lines of the summary
MaxSummaryLines == 2

-----------------------------------------------------------------------------
(* Attribute values. *)

Unset == <<>>
None == <<"None">>
Some(v) == <<"Some", v>>
IsSet(x) == Len(x) = 2
Val(x) == x[2]

NoErr == "none"

Fields ==
  {"game_type", "sb", "bb", "buyin", "rake", "date", "game", "limit", "ident",
   "tournament_ident", "tournament_level", "currency",
   "table_name", "max_players", "button_seat", "button", "players",
   "hero", "hero_seat", "hero_hole_cards", "preflop_actions",
   "flop", "turn", "river", "flop_actions", "turn_actions", "river_actions",
   "show_down", "total_pot", "board", "winners"}

HeaderFields ==
  {"game_type", "sb", "bb", "buyin", "rake", "date", "game", "limit", "ident",
   "tournament_ident", "tournament_level", "currency"}

\* self.<f> = v
Assign(r, f, v) == [r EXCEPT ![f] = v]

Ok(r) == [rec |-> r, err |-> NoErr]
Raise(r, e) == [rec |-> r, err |-> e]

-----------------------------------------------------------------------------
(* Python lists, 0-based. *)

At(t, i) == t[i + 1]

Min(a, b) == IF a < b THEN a ELSE b

\* t[a:b] for 0 <= a, 0 <= b
Slice(t, a, b) == SubSeq(t, a + 1, Min(b, Len(t)))

\* t[a:]
SliceFrom(t, a) == SubSeq(t, a + 1, Len(t))

\* t.index(x, start): the first i >= start with t[i] = x, or -1 for ValueError
IndexFrom(t, x, start) ==
  LET hits == {i \in start..(Len(t) - 1) : At(t, i) = x}
  IN  IF hits = {} THEN -1 ELSE CHOOSE i \in hits : \A j \in hits : i <= j

RECURSIVE SortedSeq(_)
SortedSeq(S) ==
  IF S = {} THEN <<>>
  ELSE LET m == CHOOSE i \in S : \A j \in S : i <= j
       IN  <<m>> \o SortedSeq(S \ {m})

\* int(group) for a group captured by \d*: the digits read in base ten
RECURSIVE IntOf(_)
IntOf(ds) ==
  IF ds = <<>> THEN 0 ELSE 10 * IntOf(SubSeq(ds, 1, Len(ds) - 1)) + ds[Len(ds)]

-----------------------------------------------------------------------------
(* Tokens. *)

Empty == [k |-> "empty"]
Marker(s) == [k |-> "marker", name |-> s]
SeatTok(n, name, ds) == [k |-> "seat", n |-> n, name |-> name, stack |-> ds]
TableTok(name, m, b) == [k |-> "table", name |-> name, max |-> m, btn |-> b]
DealtTok(name, c1, c2) == [k |-> "dealt", name |-> name, c1 |-> c1, c2 |-> c2]
ActTok(i) == [k |-> "act", id |-> i]
PotTok(ds, rk) == [k |-> "pot", pot |-> ds, rake |-> rk]
TextTok(cs) == [k |-> "text", chars |-> cs]
\* a seat line of the summary; how is "collected" (NAME collected (X)),
\* "showedwon" (NAME showed [..] and won (X)), "folded", or the folded line
\* of a player whose name holds the word "won" or "collected" ("wonfold",
\* "collfold")
SummTok(how, n, name) == [k |-> "summ", how |-> how, n |-> n, name |-> name]

-----------------------------------------------------------------------------
(* The class's patterns, as predicates on tokens. *)

DigitChars == {"0", "1", "2", "3", "4", "5", "6", "7", "8", "9"}

\* _header_pattern: the room and type literals, the currency alternatives,
\* and the literal limit "No Limit" after a game of at least one word
HeaderMatch(h) ==
  /\ h.k = "header"
  /\ h.room = "PokerStars"
  /\ h.game_type = "Tournament"
  /\ h.currency \in {"USD", "EUR"}
  /\ Len(h.words) >= 3
  /\ SubSeq(h.words, Len(h.words) - 1, Len(h.words)) = <<"No", "Limit">>

\* the groups game and limit of a matching header
GameGroup(h) == SubSeq(h.words, 1, Len(h.words) - 2)
LimitGroup(h) == SubSeq(h.words, Len(h.words) - 1, Len(h.words))

TableMatch(t) == t.k = "table"
SeatMatch(t) == t.k = "seat"
DealtMatch(t) == t.k = "dealt"
PotMatch(t) == t.k = "pot"
WinnerMatch(t) == t.k = "summ" /\ t.how = "collected"
ShowdownMatch(t) == t.k = "summ" /\ t.how = "showedwon"

\* "collected" in line, "won" in line
ContainsCollected(t) == t.k = "summ" /\ t.how \in {"collected", "collfold"}
ContainsWon(t) == t.k = "summ" /\ t.how \in {"showedwon", "wonfold"}

\* boardline.startswith('Board')
StartsWithBoard(t) ==
  /\ t.k = "text"
  /\ Len(t.chars) >= 5
  /\ SubSeq(t.chars, 1, 5) = <<"B", "o", "a", "r", "d">>

\* _board_pattern.findall(line): left to right, every two characters that
\* follow "[" or " " and are followed by "]" or " ", without overlap
RECURSIVE FindAllFrom(_, _)
FindAllFrom(cs, i) ==
  IF i + 2 > Len(cs) THEN <<>>
  ELSE IF i > 1 /\ cs[i - 1] \in {"[", " "} /\ cs[i + 2] \in {"]", " "}
       THEN <<SubSeq(cs, i, i + 1)>> \o FindAllFrom(cs, i + 2)
       ELSE FindAllFrom(cs, i + 1)

BoardFindAll(t) == FindAllFrom(t.chars, 1)

\* the empty tokens' indices: self._sections
Sections(t) == SortedSeq({i \in 0..(Len(t) - 1) : At(t, i) = Empty})

-----------------------------------------------------------------------------
(* The enumeration tables of handparser.common and the conversions of the  *)
(* header's groups.                                                        *)

TYPES == [x \in {"Tournament"} |-> "TOUR"]
GAMES == [x \in {<<"Hold'em">>, <<"Omaha">>} |->
            IF x = <<"Hold'em">> THEN "HOLDEM" ELSE "OMAHA"]
LIMITS == [x \in {<<"No", "Limit">>, <<"Pot", "Limit">>, <<"Limit">>} |->
            IF x = <<"No", "Limit">> THEN "NL"
            ELSE IF x = <<"Pot", "Limit">> THEN "PL" ELSE "FL"]

\* Decimal(text) raises InvalidOperation unless the text is a number
DecimalOk(cs) == cs # <<>> /\ \A i \in 1..Len(cs) : cs[i] \in DigitChars

DigitVal(c) == CHOOSE n \in 0..9 : ToString(n) = c

RECURSIVE Decimal(_)
Decimal(cs) ==
  IF cs = <<>> THEN 0
  ELSE 10 * Decimal(SubSeq(cs, 1, Len(cs) - 1)) + DigitVal(cs[Len(cs)])

\* datetime.strptime(text, '%Y/%m/%d %H:%M:%S') raises ValueError unless
\* the fields are in range; d is <<year, month, day, hour, minute, second>>
StrptimeOk(d) ==
  /\ d[2] \in 1..12 /\ d[3] \in 1..31
  /\ d[4] \in 0..23 /\ d[5] \in 0..59 /\ d[6] \in 0..61

Localize(d) == <<"ET">> \o d

-----------------------------------------------------------------------------
(* parse_header *)

parse_header(t, r) ==
  LET h == At(t, 0) IN
  IF ~HeaderMatch(h) THEN Raise(r, "AttributeError")
  ELSE IF h.game_type \notin DOMAIN TYPES THEN Raise(r, "KeyError(game_type)")
  ELSE
  LET r1 == Assign(r, "game_type", Some(TYPES[h.game_type])) IN
  IF ~DecimalOk(h.sb) THEN Raise(r1, "InvalidOperation")
  ELSE
  LET r2 == Assign(r1, "sb", Some(Decimal(h.sb))) IN
  IF ~DecimalOk(h.bb) THEN Raise(r2, "InvalidOperation")
  ELSE
  LET r3 == Assign(r2, "bb", Some(Decimal(h.bb)))
      r4 == Assign(r3, "buyin", Some(h.buyin))
      r5 == Assign(r4, "rake", Some(h.rake))
  IN
  IF ~StrptimeOk(h.date) THEN Raise(r5, "ValueError")
  ELSE
  LET r6 == Assign(r5, "date", Some(Localize(h.date))) IN
  IF GameGroup(h) \notin DOMAIN GAMES THEN Raise(r6, "KeyError(game)")
  ELSE
  LET r7 == Assign(r6, "game", Some(GAMES[GameGroup(h)])) IN
  IF LimitGroup(h) \notin DOMAIN LIMITS THEN Raise(r7, "KeyError(limit)")
  ELSE
  LET r8 == Assign(r7, "limit", Some(LIMITS[LimitGroup(h)]))
      r9 == Assign(r8, "ident", Some(h.ident))
      r10 == Assign(r9, "tournament_ident", Some(h.tournament_ident))
      r11 == Assign(r10, "tournament_level", Some(h.tournament_level))
  IN  Ok(Assign(r11, "currency", Some(h.currency)))

-----------------------------------------------------------------------------
(* _parse_table *)

parse_table(t, r) ==
  IF Len(t) < 2 THEN Raise(r, "IndexError")
  ELSE
  LET m == At(t, 1) IN
  IF ~TableMatch(m) THEN Raise(r, "AttributeError")
  ELSE
  LET r1 == Assign(r, "table_name", Some(m.name))
      r2 == Assign(r1, "max_players", Some(m.max))
  IN  Ok(Assign(r2, "button_seat", Some(m.btn)))

-----------------------------------------------------------------------------
(* _parse_players *)

EmptySeatNames ==
  <<"Empty Seat 1", "Empty Seat 2", "Empty Seat 3", "Empty Seat 4",
    "Empty Seat 5", "Empty Seat 6", "Empty Seat 7", "Empty Seat 8",
    "Empty Seat 9">>

\* [('Empty Seat %s' % num, 0) for num in range(1, max_players + 1)]
Placeholders(max) ==
  IF max = 0 THEN <<>> ELSE [num \in 1..max |-> <<EmptySeatNames[num], 0>>]

\* whether l[i] is an element of the list l, negative i counting from the end
PyIndexOk(l, i) == -Len(l) <= i /\ i < Len(l)
\* the 1-based place of l[i]
PyPlace(l, i) == IF i < 0 THEN i + Len(l) + 1 ELSE i + 1

\* the for loop over self._splitted[2:]: stops at the first line that is no
\* seat line; players[int(n) - 1] = (name, int(stack))
RECURSIVE SeatLoop(_, _)
SeatLoop(players, lines) ==
  IF lines = <<>> \/ ~SeatMatch(Head(lines)) THEN [players |-> players, err |-> NoErr]
  ELSE
  LET m == Head(lines) IN
  IF m.stack = <<>> THEN [players |-> players, err |-> "ValueError"]
  ELSE IF ~PyIndexOk(players, m.n - 1) THEN [players |-> players, err |-> "IndexError"]
  ELSE SeatLoop([players EXCEPT ![PyPlace(players, m.n - 1)] = <<m.name, IntOf(m.stack)>>],
                Tail(lines))

\* OrderedDict(pairs): one entry per key, at the place of the key's first
\* pair, with the value of its last pair
OrderedDict(ps) ==
  LET firsts == {i \in 1..Len(ps) : \A j \in 1..(i - 1) : ps[j][1] # ps[i][1]}
      lastOf(i) == CHOOSE j \in 1..Len(ps) :
                     /\ ps[j][1] = ps[i][1]
                     /\ \A l \in 1..Len(ps) : ps[l][1] = ps[i][1] => l <= j
      order == SortedSeq(firsts)
  IN  IF ps = <<>> THEN <<>>
      ELSE [n \in 1..Len(order) |-> <<ps[order[n]][1], ps[lastOf(order[n])][2]>>]

parse_players(t, r) ==
  LET max == Val(r["max_players"])
      btn == Val(r["button_seat"])
      loop == SeatLoop(Placeholders(max), SliceFrom(t, 2))
      players == loop.players
  IN
  IF loop.err # NoErr THEN Raise(r, loop.err)
  ELSE IF ~PyIndexOk(players, btn - 1) THEN Raise(r, "IndexError")
  ELSE
  LET r1 == Assign(r, "button", Some(players[PyPlace(players, btn - 1)][1]))
  IN  Ok(Assign(r1, "players", Some(OrderedDict(players))))

-----------------------------------------------------------------------------
(* _parse_hole_cards *)

\* keys.index(x): the 0-based place of the first key equal to x, -1 if none
KeysIndex(od, x) ==
  LET hits == {i \in 1..Len(od) : od[i][1] = x}
  IN  IF hits = {} THEN -1 ELSE (CHOOSE i \in hits : \A j \in hits : i <= j) - 1

parse_hole_cards(t, r) ==
  LET sections == Sections(t) IN
  IF sections = <<>> THEN Raise(r, "IndexError")
  ELSE IF At(sections, 0) + 2 >= Len(t) THEN Raise(r, "IndexError")
  ELSE
  LET m == At(t, At(sections, 0) + 2) IN
  IF ~DealtMatch(m) THEN Raise(r, "AttributeError")
  ELSE
  LET r1 == Assign(r, "hero", Some(m.name))
      ix == KeysIndex(Val(r["players"]), m.name)
  IN
  IF ix < 0 THEN Raise(r1, "ValueError")
  ELSE
  LET r2 == Assign(r1, "hero_seat", Some(ix + 1))
  IN  Ok(Assign(r2, "hero_hole_cards", Some(<<m.c1, m.c2>>)))

-----------------------------------------------------------------------------
(* _parse_preflop *)

parse_preflop(t, r) ==
  LET sections == Sections(t) IN
  IF Len(sections) < 2 THEN Raise(r, "IndexError")
  ELSE
  LET start == At(sections, 0) + 3
      stop == At(sections, 1)
  IN  Ok(Assign(r, "preflop_actions", Some(Slice(t, start, stop))))

-----------------------------------------------------------------------------
(* _parse_street *)

Upper(street) ==
  CASE street = "flop" -> "FLOP"
    [] street = "turn" -> "TURN"
    [] street = "river" -> "RIVER"

ActionsField(street) ==
  CASE street = "flop" -> "flop_actions"
    [] street = "turn" -> "turn_actions"
    [] street = "river" -> "river_actions"

\* the except branch: both attributes None
StreetAbsent(r, street) ==
  Assign(Assign(r, street, None), ActionsField(street), None)

parse_street(t, r, street) ==
  LET at == IndexFrom(t, Marker(Upper(street)), 0) IN
  IF at < 0 THEN Ok(StreetAbsent(r, street))
  ELSE
  LET start == at + 2
      stop == IndexFrom(t, Empty, start)
  IN
  IF stop < 0 THEN Ok(StreetAbsent(r, street))
  ELSE
  LET street_actions == Slice(t, start, stop)
  IN  Ok(Assign(r, ActionsField(street),
                IF street_actions # <<>> THEN Some(street_actions) ELSE None))

parse_flop(t, r) == parse_street(t, r, "flop")
parse_turn(t, r) == parse_street(t, r, "turn")
parse_river(t, r) == parse_street(t, r, "river")

\* self.show_down = "SHOW DOWN" in self._splitted
parse_show_down(t, r) ==
  Ok(Assign(r, "show_down", Some(\E i \in 1..Len(t) : t[i] = Marker("SHOW DOWN"))))

-----------------------------------------------------------------------------
(* _parse_pot *)

parse_pot(t, r) ==
  LET sections == Sections(t) IN
  IF sections = <<>> THEN Raise(r, "IndexError")
  ELSE IF sections[Len(sections)] + 2 >= Len(t) THEN Raise(r, "IndexError")
  ELSE
  LET m == At(t, sections[Len(sections)] + 2) IN
  IF ~PotMatch(m) THEN Raise(r, "AttributeError")
  ELSE IF m.pot = <<>> THEN Raise(r, "ValueError")
  ELSE Ok(Assign(r, "total_pot", Some(IntOf(m.pot))))

-----------------------------------------------------------------------------
(* _parse_board *)

parse_board(t, r) ==
  LET sections == Sections(t)
      r1 == Assign(r, "board", None)
  IN
  IF sections = <<>> THEN Raise(r1, "IndexError")
  ELSE IF sections[Len(sections)] + 3 >= Len(t) THEN Raise(r1, "IndexError")
  ELSE
  LET boardline == At(t, sections[Len(sections)] + 3) IN
  IF ~StartsWithBoard(boardline) THEN Ok(r1)
  ELSE
  LET cards == BoardFindAll(boardline)
      r2 == Assign(r1, "board", Some(cards))
      r3 == Assign(r2, "flop", IF cards # <<>> THEN Some(Slice(cards, 0, 3)) ELSE None)
      r4 == Assign(r3, "turn", IF Len(cards) > 3 THEN Some(At(cards, 3)) ELSE None)
  IN  Ok(Assign(r4, "river", IF Len(cards) > 4 THEN Some(At(cards, 4)) ELSE None))

-----------------------------------------------------------------------------
(* _parse_winners *)

\* the for loop over self._splitted[start:]; winners is a set of names
RECURSIVE WinnerLoop(_, _, _)
WinnerLoop(winners, lines, show_down) ==
  IF lines = <<>> THEN [winners |-> winners, err |-> NoErr]
  ELSE
  LET line == Head(lines) IN
  IF ~show_down /\ ContainsCollected(line)
  THEN IF ~WinnerMatch(line) THEN [winners |-> winners, err |-> "AttributeError"]
       ELSE WinnerLoop(winners \cup {line.name}, Tail(lines), show_down)
  ELSE IF show_down /\ ContainsWon(line)
  THEN IF ~ShowdownMatch(line) THEN [winners |-> winners, err |-> "AttributeError"]
       ELSE WinnerLoop(winners \cup {line.name}, Tail(lines), show_down)
  ELSE WinnerLoop(winners, Tail(lines), show_down)

\* the first line the loop reads
WinnersStart(sections) == sections[Len(sections)] + 4

parse_winners(t, r) ==
  LET sections == Sections(t) IN
  IF sections = <<>> THEN Raise(r, "IndexError")
  ELSE
  LET loop == WinnerLoop({}, SliceFrom(t, WinnersStart(sections)), Val(r["show_down"]))
  IN  IF loop.err # NoErr THEN Raise(r, loop.err)
      ELSE Ok(Assign(r, "winners", Some(loop.winners)))

-----------------------------------------------------------------------------
(* The hands the model parses. *)

RECURSIVE SeqsUpTo(_, _)
SeqsUpTo(S, n) ==
  IF n = 0 THEN {<<>>}
  ELSE {<<>>} \cup {<<x>> \o q : x \in S, q \in SeqsUpTo(S, n - 1)}

DefaultHeader ==
  [k |-> "header", room |-> "PokerStars", game_type |-> "Tournament",
   currency |-> "USD", words |-> <<"Hold'em", "No", "Limit">>,
   sb |-> <<"1", "0">>, bb |-> <<"2", "0">>, buyin |-> "1.00", rake |-> "0.10",
   date |-> <<2013, 10, 4, 13, 53, 27>>, ident |-> "1",
   tournament_ident |-> "2", tournament_level |-> "I"]

HeaderWords ==
  {<<"Omaha", "No", "Limit">>, <<"Badugi", "No", "Limit">>,
   <<"Hold'em", "Pot", "Limit">>, <<"Hold'em", "Spread", "Limit">>,
   <<"Hold'em", "Pot", "No", "Limit">>, <<"No", "Limit">>}

Headers ==
  {DefaultHeader, ActTok(0),
   [DefaultHeader EXCEPT !.sb = <<"x">>], [DefaultHeader EXCEPT !.bb = <<>>],
   [DefaultHeader EXCEPT !.date = <<2013, 13, 4, 13, 53, 27>>],
   [DefaultHeader EXCEPT !.room = "FullTilt"],
   [DefaultHeader EXCEPT !.currency = "GBP"]}
  \cup {[DefaultHeader EXCEPT !.words = w] : w \in HeaderWords}

DefaultTable == TableTok("T", 3, 1)

Tables ==
  {TableTok("T", 3, b) : b \in {0, 1, 3}}
  \cup {TableTok("T", 2, 1), TableTok("T", 2, 3), TableTok("T", 0, 1), ActTok(0)}

SeatToks ==
  {SeatTok(n, "A", <<1, 5>>) : n \in {0, 1, 3}}
  \cup {SeatTok(1, "B", <<1, 5>>), SeatTok(3, "B", <<1, 5>>),
        SeatTok(1, "Empty Seat 2", <<1, 5>>), SeatTok(1, "A", <<>>)}

SeatLists == SeqsUpTo(SeatToks, MaxSeatLines)

DefaultSeats == <<SeatTok(1, "A", <<1, 5>>), SeatTok(3, "B", <<1, 5>>)>>

DefaultDealt == DealtTok("A", "As", "Kd")

DealtToks == {DefaultDealt, DealtTok("B", "As", "Kd"), DealtTok("C", "As", "Kd"), ActTok(1)}

\* <<ActTok(1), ..., ActTok(n)>>
Acts(n) == IF n = 0 THEN <<>> ELSE [i \in 1..n |-> ActTok(i)]

CardsTok == [k |-> "cards"]

StreetOptions(s) ==
  {<<>>} \cup {<<Empty, Marker(s), CardsTok>> \o Acts(n) : n \in 0..MaxActions}

ShowPart == <<Empty, Marker("SHOW DOWN"), ActTok(8)>>

Ranks == <<"2", "3", "4", "5", "6", "7", "8", "9", "T", "J", "Q", "K", "A">>
Suits == <<"s", "d", "c", "h">>

RECURSIVE CardChars(_)
CardChars(n) ==
  IF n = 0 THEN <<>>
  ELSE CardChars(n - 1) \o (IF n = 1 THEN <<>> ELSE <<" ">>)
         \o <<Ranks[((n - 1) % 13) + 1], Suits[((n - 1) % 4) + 1]>>

\* the line "Board [2s 3d 4c ...]" with n cards
BoardTok(n) ==
  TextTok(<<"B", "o", "a", "r", "d", " ", "[">> \o CardChars(n) \o <<"]">>)

BoardOptions == {<<>>} \cup {<<BoardTok(n)>> : n \in 0..MaxBoardCards}

DefaultPot == PotTok(<<6, 0>>, <<0>>)

SummToks ==
  {SummTok(how, 1, "A") : how \in {"collected", "showedwon"}}
  \cup {SummTok(how, 3, "B") : how \in {"collected", "folded"}}
  \cup {SummTok("wonfold", 2, "wonder")}

SummaryLists == SeqsUpTo(SummToks, MaxSummaryLines) \ {<<>>}

DefaultSummary ==
  <<DefaultPot, SummTok("folded", 1, "A"), SummTok("collected", 3, "B")>>

ShowSummary ==
  <<DefaultPot, BoardTok(5), SummTok("showedwon", 1, "A"), SummTok("folded", 3, "B")>>

SummaryTail(summary) == <<Empty, Marker("SUMMARY")>> \o summary

Hand(h, tb, seats, dealt, pre, streets, tail) ==
  <<h, tb>> \o seats \o <<ActTok(0), Empty, Marker("HOLE CARDS"), dealt>>
    \o pre \o streets \o tail

DefaultHand ==
  Hand(DefaultHeader, DefaultTable, DefaultSeats, DefaultDealt, Acts(1), <<>>,
       SummaryTail(DefaultSummary))

HeaderHands ==
  {Hand(h, DefaultTable, DefaultSeats, DefaultDealt, Acts(1), <<>>,
        SummaryTail(DefaultSummary)) : h \in Headers}

SeatHands ==
  {Hand(DefaultHeader, tb, sl, dl, Acts(1), <<>>, SummaryTail(DefaultSummary)) :
     tb \in Tables, sl \in SeatLists, dl \in {DefaultDealt}}
  \cup
  {Hand(DefaultHeader, DefaultTable, sl, dl, Acts(1), <<>>, SummaryTail(DefaultSummary)) :
     sl \in SeatLists, dl \in DealtToks}

StreetHands ==
  {Hand(DefaultHeader, DefaultTable, DefaultSeats, DefaultDealt, Acts(1),
        f \o tu \o ri, tail) :
     f \in StreetOptions("FLOP"), tu \in StreetOptions("TURN"),
     ri \in StreetOptions("RIVER"),
     tail \in {<<>>, SummaryTail(DefaultSummary), ShowPart \o SummaryTail(ShowSummary)}}
  \cup
  {Hand(DefaultHeader, DefaultTable, DefaultSeats, DefaultDealt, Acts(n), <<>>,
        SummaryTail(DefaultSummary)) : n \in 0..MaxActions}

SummaryHands ==
  {Hand(DefaultHeader, DefaultTable, DefaultSeats, DefaultDealt, Acts(1), sh,
        SummaryTail(<<DefaultPot>> \o b \o sl)) :
     sh \in {<<>>, ShowPart}, b \in {<<>>, <<BoardTok(5)>>}, sl \in SummaryLists}
  \cup
  {Hand(DefaultHeader, DefaultTable, DefaultSeats, DefaultDealt, Acts(1), st,
        SummaryTail(<<DefaultPot>> \o b \o <<SummTok("collected", 3, "B")>>)) :
     st \in {<<>>,
             <<Empty, Marker("FLOP"), CardsTok, ActTok(1)>>,
             <<Empty, Marker("FLOP"), CardsTok, ActTok(1),
               Empty, Marker("TURN"), CardsTok, ActTok(2)>>,
             <<Empty, Marker("FLOP"), CardsTok, ActTok(1),
               Empty, Marker("TURN"), CardsTok, ActTok(2),
               Empty, Marker("RIVER"), CardsTok, ActTok(3)>>},
     b \in BoardOptions}
  \cup
  {Hand(DefaultHeader, DefaultTable, DefaultSeats, DefaultDealt, Acts(1), <<>>,
        SummaryTail(<<p, SummTok("folded", 1, "A"), SummTok("collected", 3, "B")>>)) :
     p \in {PotTok(<<>>, <<0>>), ActTok(9)}}

\* the hand cut short after its first n lines, the text's last line not blank
CutHands ==
  {SubSeq(DefaultHand, 1, n) : n \in {m \in 1..Len(DefaultHand) : DefaultHand[m] # Empty}}

Hands == HeaderHands \cup SeatHands \cup StreetHands \cup SummaryHands \cup CutHands

-----------------------------------------------------------------------------
(* The record and its operations. *)

\* PokerHand.__init__: the flags are clear and no attribute is assigned
NewRecord == [f \in Fields |-> Unset]

Init ==
  /\ splitted \in Hands
  /\ rec = NewRecord
  /\ header_parsed = FALSE
  /\ parsed = FALSE
  /\ pc = "idle"
  /\ err = NoErr
  /\ last = "init"

\* a parse() that never parses the header
ParseEntrySkipsHeader(hp) == "table"

\* parse(): the header first, unless it is parsed already
ParseEntry(hp) == IF ~hp THEN "header" ELSE "table"

\* parse(): the steps in order, parsed = True after the last
After(step) ==
  CASE step = "header" -> "table"
    [] step = "table" -> "players"
    [] step = "players" -> "hole_cards"
    [] step = "hole_cards" -> "preflop"
    [] step = "preflop" -> "flop"
    [] step = "flop" -> "turn"
    [] step = "turn" -> "river"
    [] step = "river" -> "show_down"
    [] step = "show_down" -> "pot"
    [] step = "pot" -> "board"
    [] step = "board" -> "winners"
    [] step = "winners" -> "finish"

\* a parse() that catches a step's exception and goes on
PropagateSwallows(e, next) == next

\* an exception leaves parse() at once: no step catches it
Propagate(e, next) == IF e = NoErr THEN next ELSE "idle"

\* parse_header's last statement, reached only without an exception
HeaderFlag(hp, e) == IF e = NoErr THEN TRUE ELSE hp

\* a caller calls parse_header()
CallParseHeader ==
  /\ pc = "idle"
  /\ LET res == parse_header(splitted, rec) IN
       /\ rec' = res.rec
       /\ err' = res.err
       /\ header_parsed' = HeaderFlag(header_parsed, res.err)
  /\ pc' = "idle"
  /\ last' = "parse_header"
  /\ UNCHANGED <<splitted, parsed>>

\* a caller (or the constructor, with parse=True) calls parse()
CallParse ==
  /\ pc = "idle"
  /\ pc' = ParseEntry(header_parsed)
  /\ err' = NoErr
  /\ last' = "parse"
  /\ UNCHANGED <<splitted, rec, header_parsed, parsed>>

StepHeader ==
  /\ pc = "header"
  /\ LET res == parse_header(splitted, rec) IN
       /\ rec' = res.rec
       /\ err' = res.err
       /\ header_parsed' = HeaderFlag(header_parsed, res.err)
       /\ pc' = Propagate(res.err, After("header"))
  /\ last' = "header"
  /\ UNCHANGED <<splitted, parsed>>

\* one body step of parse(): res is what the step's method does
Apply(name, res) ==
  /\ rec' = res.rec
  /\ err' = res.err
  /\ pc' = Propagate(res.err, After(name))
  /\ last' = name
  /\ UNCHANGED <<splitted, header_parsed, parsed>>

StepTable ==
  /\ pc = "table"
  /\ Apply("table", parse_table(splitted, rec))

StepPlayers ==
  /\ pc = "players"
  /\ Apply("players", parse_players(splitted, rec))

StepHoleCards ==
  /\ pc = "hole_cards"
  /\ Apply("hole_cards", parse_hole_cards(splitted, rec))

StepPreflop ==
  /\ pc = "preflop"
  /\ Apply("preflop", parse_preflop(splitted, rec))

StepFlop ==
  /\ pc = "flop"
  /\ Apply("flop", parse_flop(splitted, rec))

StepTurn ==
  /\ pc = "turn"
  /\ Apply("turn", parse_turn(splitted, rec))

StepRiver ==
  /\ pc = "river"
  /\ Apply("river", parse_river(splitted, rec))

StepShowDown ==
  /\ pc = "show_down"
  /\ Apply("show_down", parse_show_down(splitted, rec))

StepPot ==
  /\ pc = "pot"
  /\ Apply("pot", parse_pot(splitted, rec))

StepBoard ==
  /\ pc = "board"
  /\ Apply("board", parse_board(splitted, rec))

StepWinners ==
  /\ pc = "winners"
  /\ Apply("winners", parse_winners(splitted, rec))

\* self.parsed = True
Finish ==
  /\ pc = "finish"
  /\ parsed' = TRUE
  /\ pc' = "idle"
  /\ last' = "finish"
  /\ UNCHANGED <<splitted, rec, header_parsed, err>>

Next ==
  \/ CallParseHeader
  \/ CallParse
  \/ StepHeader
  \/ StepTable
  \/ StepPlayers
  \/ StepHoleCards
  \/ StepPreflop
  \/ StepFlop
  \/ StepTurn
  \/ StepRiver
  \/ StepShowDown
  \/ StepPot
  \/ StepBoard
  \/ StepWinners
  \/ Finish

Spec == Init /\ [][Next]_vars

-----------------------------------------------------------------------------
(* What the claims speak of. *)

BodySteps ==
  {"table", "players", "hole_cards", "preflop", "flop", "turn", "river",
   "show_down", "pot", "board", "winners"}

Streets == {"flop", "turn", "river"}

\* the seat lines _parse_players reads: the seat lines that follow the table
\* line, up to the first line that is no seat line
RECURSIVE LeadingSeats(_)
LeadingSeats(lines) ==
  IF lines = <<>> \/ ~SeatMatch(Head(lines)) THEN <<>>
  ELSE <<Head(lines)>> \o LeadingSeats(Tail(lines))

SeatLines == LeadingSeats(SliceFrom(splitted, 2))

SeatLinesOf(k) == {i \in 1..Len(SeatLines) : SeatLines[i].n = k}

\* the lines of the summary after the pot line
SummaryLines ==
  LET sections == Sections(splitted)
  IN  SliceFrom(splitted, sections[Len(sections)] + 3)

HasMarker(s) == \E i \in 1..Len(splitted) : splitted[i] = Marker(s)

\* a hand without showdown, street markers and board line
PreflopOnly ==
  /\ ~HasMarker("SHOW DOWN") /\ ~HasMarker("FLOP")
  /\ ~HasMarker("TURN") /\ ~HasMarker("RIVER")
  /\ \A i \in 1..Len(splitted) : ~StartsWithBoard(splitted[i])

\* C1: in every record whose parse() succeeded winners is non-empty, and in
\* a hand without showdown, street markers and board line every player of a
\* summary line "Seat N: NAME collected (X)" is in winners, the first line
\* after the pot line included.
C1_WinnersNonEmpty ==
  parsed =>
    /\ Val(rec["winners"]) # {}
    /\ PreflopOnly =>
         \A i \in 1..Len(SummaryLines) :
           WinnerMatch(SummaryLines[i]) => SummaryLines[i].name \in Val(rec["winners"])

\* C2: after _parse_players succeeded, players has max_players entries, the
\* k-th the (name, stack) of a seat line naming seat k, or the placeholder
\* ('Empty Seat k', 0) when no seat line names seat k.
C2_SeatingComplete ==
  (last = "players" /\ err = NoErr) =>
    LET max == Val(rec["max_players"])
        players == Val(rec["players"])
    IN  /\ Len(players) = max
        /\ \A k \in 1..max :
             IF SeatLinesOf(k) = {}
             THEN players[k] = <<EmptySeatNames[k], 0>>
             ELSE \E i \in SeatLinesOf(k) :
                    players[k] = <<SeatLines[i].name, IntOf(SeatLines[i].stack)>>

\* the line _parse_hole_cards reads is there and is no "Dealt to" line
NoHeroReveal ==
  LET sections == Sections(splitted)
  IN  /\ sections # <<>>
      /\ At(sections, 0) + 2 < Len(splitted)
      /\ ~DealtMatch(At(splitted, At(sections, 0) + 2))

\* C3: when the line at the first section boundary + 2 is no "Dealt to"
\* line, _parse_hole_cards raises nothing, leaves hero, hero_seat and
\* hero_hole_cards unset, and parse() goes on with the preflop step.
C3_MissingRevealIsNoError ==
  (last = "hole_cards" /\ NoHeroReveal) =>
    /\ err = NoErr
    /\ pc = "preflop"
    /\ ~IsSet(rec["hero"]) /\ ~IsSet(rec["hero_seat"]) /\ ~IsSet(rec["hero_hole_cards"])

\* C4: whenever _parse_hole_cards set the hero fields, hero_seat is the seat
\* number N of a seat line "Seat N: NAME (...)" whose NAME is the hero.
C4_HeroSeatMatchesSeating ==
  (last = "hole_cards" /\ err = NoErr) =>
    \E i \in 1..Len(SeatLines) :
      /\ SeatLines[i].name = Val(rec["hero"])
      /\ SeatLines[i].n = Val(rec["hero_seat"])

\* the name at seat k according to the seat lines: the last line naming the
\* seat, the placeholder when none does
OccupantName(k) ==
  IF SeatLinesOf(k) = {} THEN EmptySeatNames[k]
  ELSE SeatLines[CHOOSE i \in SeatLinesOf(k) : \A j \in SeatLinesOf(k) : j <= i].name

\* C5: in every successfully parsed record button_seat and the seat number
\* of every seat line read lie in 1..max_players (so a seat number 0 or
\* above max_players never parses), and button is the name at button_seat.
C5_SeatNumbersInRange ==
  parsed =>
    LET max == Val(rec["max_players"])
        btn == Val(rec["button_seat"])
    IN  /\ btn \in 1..max
        /\ \A i \in 1..Len(SeatLines) : SeatLines[i].n \in 1..max
        /\ Val(rec["button"]) = OccupantName(btn)

\* the number of cards of the board, 0 when the board is absent
BoardLen == IF IsSet(rec["board"]) THEN Len(Val(rec["board"])) ELSE 0

\* C6: after _parse_board the board is absent or has 3, 4 or 5 cards, flop
\* is set iff it has at least 3 cards, turn iff at least 4, river iff 5.
C6_BoardLength ==
  (last = "board" /\ err = NoErr) =>
    /\ BoardLen \in {0, 3, 4, 5}
    /\ IsSet(rec["flop"]) <=> BoardLen >= 3
    /\ IsSet(rec["turn"]) <=> BoardLen >= 4
    /\ IsSet(rec["river"]) <=> BoardLen >= 5

\* 0-based place of the street's marker, -1 when there is none
MarkerAt(street) == IndexFrom(splitted, Marker(Upper(street)), 0)

\* the lines from the marker + 2 up to the next empty line (up to the end
\* of the text when no empty line follows)
StreetSlice(street) ==
  LET start == MarkerAt(street) + 2
      stop == IndexFrom(splitted, Empty, start)
  IN  IF stop < 0 THEN SliceFrom(splitted, start) ELSE Slice(splitted, start, stop)

\* outcome (3): the street did not occur
RecordedAbsent(street) ==
  rec[street] = None /\ rec[ActionsField(street)] = None

\* C7: _parse_street has three outcomes: marker present and a non-empty
\* slice, the actions are that slice; marker present and an empty slice,
\* no actions but the street is not recorded as absent; marker absent,
\* street and actions both unset.  A street whose marker is present is
\* never recorded as absent.
C7_StreetOutcomes ==
  \A street \in Streets :
    last = street =>
      IF MarkerAt(street) < 0 THEN RecordedAbsent(street)
      ELSE /\ ~RecordedAbsent(street)
           /\ IF StreetSlice(street) # <<>>
              THEN rec[ActionsField(street)] = Some(StreetSlice(street))
              ELSE rec[ActionsField(street)] = None

\* a header that matches the grammar but for its limit: a known game
\* followed by limit words that are no known limit
UnknownLimitHeader(h) ==
  /\ h.k = "header"
  /\ HeaderMatch([h EXCEPT !.words = <<"Hold'em", "No", "Limit">>])
  /\ DecimalOk(h.sb) /\ DecimalOk(h.bb) /\ StrptimeOk(h.date)
  /\ \E n \in 1..(Len(h.words) - 1) :
       /\ SubSeq(h.words, 1, n) \in DOMAIN GAMES
       /\ SubSeq(h.words, n + 1, Len(h.words)) \notin DOMAIN LIMITS

\* C8: a header that is well-formed but for an unknown limit makes
\* parse_header fail with the lookup error of the field limit, not with the
\* failure of a header that does not match the grammar.
C8_UnknownLimitIsLookupError ==
  (last \in {"parse_header", "header"} /\ UnknownLimitHeader(At(splitted, 0))) =>
    err = "KeyError(limit)"

\* C9: no body step runs while header_parsed is false; parse() runs the
\* header step exactly when header_parsed is false, never once it is set;
\* parsed becomes true only after the winners step has completed.
C9_HeaderBeforeBody ==
  /\ [](pc \in BodySteps \cup {"finish"} => header_parsed)
  /\ [](pc = "header" => ~header_parsed)
  /\ [][last' = "parse" => (pc' = "header" <=> ~header_parsed)]_vars
  /\ [][(~parsed /\ parsed') => (last = "winners" /\ err = NoErr)]_vars

\* parse() was called on a record whose header and body are parsed already,
\* and went to the table step
C9_Witness == parsed /\ header_parsed /\ last = "parse" /\ pc = "table"

\* C10 as claimed: a step that raises has assigned no attribute, no later
\* step runs, and header_parsed and parsed keep their values.
C10_AllOrNothing ==
  [][err' # NoErr =>
       /\ rec' = rec
       /\ pc' = "idle"
       /\ header_parsed' = header_parsed /\ parsed' = parsed]_vars

\* the attributes a step's method assigns
StepFields(step) ==
  CASE step \in {"header", "parse_header"} -> HeaderFields
    [] step = "table" -> {"table_name", "max_players", "button_seat"}
    [] step = "players" -> {"button", "players"}
    [] step = "hole_cards" -> {"hero", "hero_seat", "hero_hole_cards"}
    [] step = "preflop" -> {"preflop_actions"}
    [] step \in Streets -> {step, ActionsField(step)}
    [] step = "show_down" -> {"show_down"}
    [] step = "pot" -> {"total_pot"}
    [] step = "board" -> {"board", "flop", "turn", "river"}
    [] step = "winners" -> {"winners"}
    [] OTHER -> {}

\* C10 amended: a step that raises ends the call (no later step runs) and
\* leaves header_parsed and parsed as they were; it changes no attribute of
\* another step, and _parse_table, _parse_players, _parse_preflop,
\* _parse_pot and _parse_winners change none at all; but parse_header,
\* _parse_hole_cards and _parse_board keep what they assigned before the
\* failing statement: a hero name missing from the seating leaves hero set
\* to that name, hero_seat and hero_hole_cards as they were.
C10_RaiseEndsCall ==
  [][err' # NoErr =>
       /\ pc' = "idle"
       /\ header_parsed' = header_parsed /\ parsed' = parsed
       /\ \A f \in Fields \ StepFields(last') : rec'[f] = rec[f]
       /\ last' \in {"table", "players", "preflop", "pot", "winners"} => rec' = rec
       /\ (last' = "hole_cards" /\ err' = "ValueError") =>
            /\ IsSet(rec'["hero"])
            /\ KeysIndex(Val(rec["players"]), Val(rec'["hero"])) < 0
            /\ rec'["hero_seat"] = rec["hero_seat"]
            /\ rec'["hero_hole_cards"] = rec["hero_hole_cards"]]_vars

\* the hero of the "Dealt to" line is in no seat: hero is set, hero_seat not
C10_Witness ==
  /\ last = "hole_cards" /\ err = "ValueError" /\ pc = "idle"
  /\ IsSet(rec["hero"]) /\ ~IsSet(rec["hero_seat"])

====
